---- MODULE Spec2Model ----
(***************************************************************************)
(* rnd: one invocation of the command-line program.  A state is the parsed *)
(* command line together with what the process has written to standard     *)
(* output and standard error, its exit status and the values the random    *)
(* source delivered.  Each subcommand arm of run_cli is one action.        *)
(***************************************************************************)
EXTENDS Integers, Sequences, FiniteSets, TLC

VARIABLES pc, cmd, stdout, stderr, exitCode, drawn, range

vars == <<pc, cmd, stdout, stderr, exitCode, drawn, range>>

(* ------------------------------ bounds -------------------------------- *)
MaxAmount == 11      \* largest amount / times on the command line
MaxItems == 2        \* longest item list (choose, shuffle, assign)
MaxWeights == 2      \* longest weights list
MaxSides == 2        \* largest number of die sides
MaxSeqs == 64        \* choose, die: outcome sequences enumerated per command line
MaxNum == 2          \* random: bounds range over -MaxNum .. MaxNum
FloatScale == 2      \* random: float steps per unit

(* ------------------------- program constants -------------------------- *)
AMOUNT_THRESHOLD == 10
ExitOk == 0
ExitError == 1
ExitPanic == 101

Labels == {"a", "b"}
WeightVals == {-1, 0, 1}

(* --------------------------- sequence helpers ------------------------- *)
Range(s) == {s[i] : i \in DOMAIN s}

SeqsUpTo(S, n) == UNION {[1..k -> S] : k \in 0..n}

Perms(S) == {p \in [1..Cardinality(S) -> S] : \A i, j \in DOMAIN p : p[i] = p[j] => i = j}

Occurrences(s, v) == Cardinality({i \in DOMAIN s : s[i] = v})

Min(a, b) == IF a <= b THEN a ELSE b

RECURSIVE Pow(_, _)
Pow(b, e) == IF e = 0 THEN 1 ELSE b * Pow(b, e - 1)

(* ------------------------------ output -------------------------------- *)
Item(v) == [k |-> "item", v |-> v]
Sep == [k |-> "sep"]
NL == [k |-> "nl"]
Line(v, c) == [k |-> "count", v |-> v, n |-> c]
ErrorLine(msg) == [k |-> "error", msg |-> msg]
PanicLine(msg) == [k |-> "panic", msg |-> msg]

\* itertools join: the elements with the separator between neighbours.
RECURSIVE Join(_, _)
Join(toks, sep) ==
    IF Len(toks) = 0 THEN <<>>
    ELSE IF Len(toks) = 1 THEN <<toks[1]>>
    ELSE <<toks[1], sep>> \o Join(Tail(toks), sep)

\* The loop body of the count branch: the selection, then ", " unless the
\* loop index equals amount - 1.
RECURSIVE EachPrinted(_, _, _)
EachPrinted(sel, i, amount) ==
    IF i >= Len(sel) THEN <<>>
    ELSE <<Item(sel[i + 1])>>
         \o (IF i # amount - 1 THEN <<Sep>> ELSE <<>>)
         \o EachPrinted(sel, i + 1, amount)

\* sorted_by(|(_, a), (_, b)| b.cmp(a)): a stable sort, larger counts first.
RECURSIVE InsertByCount(_, _)
InsertByCount(sorted, e) ==
    IF sorted = <<>> THEN <<e>>
    ELSE IF Head(sorted).n >= e.n THEN <<Head(sorted)>> \o InsertByCount(Tail(sorted), e)
    ELSE <<e>> \o sorted

RECURSIVE SortedByCount(_)
SortedByCount(entries) ==
    IF entries = <<>> THEN <<>>
    ELSE InsertByCount(SortedByCount(SubSeq(entries, 1, Len(entries) - 1)),
                       entries[Len(entries)])

\* The map built by the loop, read back in the iteration order `order` of the
\* hash map (a permutation of its keys).
MapEntries(sel, order) == [i \in DOMAIN order |-> Line(order[i], Occurrences(sel, order[i]))]

CountTable(sel, order) == Join(SortedByCount(MapEntries(sel, order)), NL) \o <<NL>>

\* print_selections for an iterator that yields `sel` to its end.
PrintSelections(sel, count, all, amount, order) ==
    IF count
    THEN (IF all THEN EachPrinted(sel, 0, amount) \o <<NL, NL>> ELSE <<>>)
         \o CountTable(sel, order)
    ELSE Join([i \in DOMAIN sel |-> Item(sel[i])], Sep) \o <<NL>>

\* print_selections for an iterator that yields `sel` and then panics: the
\* count branch has printed as it went, the other branch prints nothing.
PrintedBeforePanic(sel, count, all, amount) ==
    IF count /\ all THEN EachPrinted(sel, 0, amount) ELSE <<>>

(* --------------------------- display policy --------------------------- *)
\* The threshold taken as exclusive.
ShowAllBelowThreshold(all, amount) == all \/ amount < AMOUNT_THRESHOLD

ShowAll(all, amount) == all \/ amount <= AMOUNT_THRESHOLD

ShowCount(count, all) == count \/ ~all

(* ------------------------------ results ------------------------------- *)
Succeed(out, draws) ==
    /\ stdout' = out
    /\ stderr' = <<>>
    /\ exitCode' = ExitOk
    /\ drawn' = draws

\* main: an Err from run_cli is printed by exit() and the process ends with 1.
Fail(msg) ==
    /\ stdout' = <<>>
    /\ stderr' = <<ErrorLine(msg)>>
    /\ exitCode' = ExitError
    /\ drawn' = <<>>

Panic(out, draws, msg) ==
    /\ stdout' = out
    /\ stderr' = <<PanicLine(msg)>>
    /\ exitCode' = ExitPanic
    /\ drawn' = draws

(* ------------------------- weighted sampling -------------------------- *)
\* WeightedIndex::new: "ok" or the error it returns.
WeightedIndexNew(weights) ==
    IF Len(weights) = 0 THEN "NoItem"
    ELSE IF \E i \in DOMAIN weights : weights[i] < 0 THEN "InvalidWeight"
    ELSE IF \A i \in DOMAIN weights : weights[i] = 0 THEN "AllWeightsZero"
    ELSE "ok"

\* The indices dist.sample can return (0-based in the code, 1-based here).
Samplable(weights) == {i \in DOMAIN weights : weights[i] > 0}

FirstBad(draws, n) ==
    IF \E i \in DOMAIN draws : draws[i] > n
    THEN CHOOSE i \in DOMAIN draws : draws[i] > n /\ \A j \in 1..(i - 1) : draws[j] <= n
    ELSE 0

ChooseWithRepetition(items, weights, amount, count, all) ==
    IF WeightedIndexNew(weights) # "ok"
    THEN Fail(WeightedIndexNew(weights))
    ELSE \E draws \in [1..amount -> Samplable(weights)] :
           LET bad == FirstBad(draws, Len(items))
               good == [i \in 1..(IF bad = 0 THEN amount ELSE bad - 1) |-> items[draws[i]]]
           IN IF bad # 0
              THEN Panic(PrintedBeforePanic(good, count, all, amount),
                         SubSeq(draws, 1, bad), "index out of bounds")
              ELSE \E order \in Perms(Range(good)) :
                     Succeed(PrintSelections(good, count, all, amount, order), draws)

(* ------------------------------- coin --------------------------------- *)
CoinCmd ==
    /\ pc = "parse"
    /\ \E amount \in 0..MaxAmount, count \in BOOLEAN, all \in BOOLEAN :
      /\ pc' = "exited"
      /\ cmd' = [name |-> "coin", amount |-> amount, count |-> count, all |-> all]
      /\ range' = <<>>
      /\ LET all2 == ShowAll(all, amount)
             count2 == ShowCount(count, all2)
         IN ChooseWithRepetition(<<"heads", "tails">>, <<1, 1>>, amount, count2, all2)

(* ------------------------------ choose -------------------------------- *)
\* weights = [1.0].repeat(items.len()) when no weights were given.
EffectiveWeights(items, weights) ==
    IF Len(weights) = 0 THEN [i \in DOMAIN items |-> 1] ELSE weights

\* Repetition already when the amount equals the number of items.
UseRepetitionAtEqual(repetition, amount, n) == repetition \/ amount >= n

UseRepetition(repetition, amount, n) == repetition \/ amount > n

\* items.into_iter().zip(weights.into_iter()): as long as the shorter of the two.
Zip(items, weights) ==
    [i \in 1..Min(Len(items), Len(weights)) |-> <<items[i], weights[i]>>]

\* choose_multiple_weighted: min(amount, len) distinct positions, those with the
\* greatest keys u^(1/w); a zero weight gives the key 0, so a position of weight
\* zero is taken only when the positive ones do not suffice.
ChooseMultipleWeighted(choices, amount) ==
    LET n == Len(choices)
        amt == Min(amount, n)
        pos == {i \in 1..n : choices[i][2] > 0}
    IN {p \in [1..amt -> 1..n] :
          /\ \A i, j \in 1..amt : p[i] = p[j] => i = j
          /\ (pos \subseteq Range(p) \/ Range(p) \subseteq pos)}

ChooseWithoutRepetition(items, weights, amount, count, all) ==
    LET choices == Zip(items, weights)
    IN IF /\ Min(amount, Len(choices)) > 0
          /\ \E i \in DOMAIN choices : choices[i][2] < 0
       THEN Fail("InvalidWeight")
       ELSE \E p \in ChooseMultipleWeighted(choices, amount) :
              LET sel == [i \in DOMAIN p |-> choices[p[i]][1]]
              IN \E order \in Perms(Range(sel)) :
                   Succeed(PrintSelections(sel, count, all, amount, order), p)

ChooseCmd ==
    /\ pc = "parse"
    /\ \E items \in SeqsUpTo(Labels, MaxItems), weights \in SeqsUpTo(WeightVals, MaxWeights),
          amount \in 0..MaxAmount, count \in BOOLEAN, all \in BOOLEAN, repetition \in BOOLEAN :
      /\ pc' = "exited"
      /\ cmd' = [name |-> "choose", items |-> items, weights |-> weights, amount |-> amount,
                 count |-> count, all |-> all, repetition |-> repetition]
      /\ range' = <<>>
      /\ LET w == EffectiveWeights(items, weights)
             all2 == ShowAll(all, amount)
             count2 == ShowCount(count, all2)
         IN IF UseRepetition(repetition, amount, Len(items))
            THEN /\ Pow(Cardinality(Samplable(w)), amount) <= MaxSeqs
                 /\ ChooseWithRepetition(items, w, amount, count2, all2)
            ELSE ChooseWithoutRepetition(items, w, amount, count2, all2)

(* ------------------------------ shuffle ------------------------------- *)
\* slice.shuffle: the slice in the order given by a permutation of its positions.
Shuffled(items, p) == [i \in DOMAIN items |-> items[p[i]]]

ShuffleCmd ==
    /\ pc = "parse"
    /\ \E items \in SeqsUpTo(Labels, MaxItems) :
      /\ pc' = "exited"
      /\ cmd' = [name |-> "shuffle", items |-> items]
      /\ range' = <<>>
      /\ \E p \in Perms(DOMAIN items) :
           Succeed(Join([i \in DOMAIN items |-> Item(Shuffled(items, p)[i])], Sep) \o <<NL>>, p)

(* -------------------------------- die --------------------------------- *)
SidesOk(sides) == ~(sides < 1)

DieCmdBody(sides, times, count, all) ==
    IF ~SidesOk(sides)
    THEN Fail("number of sides must be at least 1")
    ELSE \E rolls \in [1..times -> 1..sides] :
           \E order \in Perms(Range(rolls)) :
             Succeed(PrintSelections(rolls, count, all, times, order), rolls)

DieCmd ==
    /\ pc = "parse"
    /\ \E sides \in 0..MaxSides, times \in 0..MaxAmount, count \in BOOLEAN, all \in BOOLEAN :
      /\ pc' = "exited"
      /\ cmd' = [name |-> "die", sides |-> sides, times |-> times, count |-> count, all |-> all]
      /\ range' = <<>>
      /\ Pow(sides, times) <= MaxSeqs
      /\ LET all2 == ShowAll(all, times)
             count2 == ShowCount(count, all2)
         IN DieCmdBody(sides, times, count2, all2)

(* ------------------------------- assign ------------------------------- *)
Pair(l, r) == [k |-> "pair", l |-> l, r |-> r]

LengthsDiffer(left, right) == Len(left) # Len(right)

\* The left list paired in reverse order.
AssignPairsReversed(left, right) ==
    [i \in DOMAIN left |-> Pair(left[Len(left) + 1 - i], right[i])]

AssignPairs(left, right) == [i \in DOMAIN left |-> Pair(left[i], right[i])]

AssignCmd ==
    /\ pc = "parse"
    /\ \E left \in SeqsUpTo(Labels, MaxItems), right \in SeqsUpTo(Labels, MaxItems) :
      /\ pc' = "exited"
      /\ cmd' = [name |-> "assign", left |-> left, right |-> right]
      /\ range' = <<>>
      /\ IF LengthsDiffer(left, right)
         THEN Fail("left and right lists of unequal length")
         ELSE \E p \in Perms(DOMAIN right) :
                Succeed(Join(AssignPairs(left, Shuffled(right, p)), NL) \o <<NL>>, p)

(* ------------------------------- random ------------------------------ *)
\* Num: an integer, or a float held as a whole number of 1/FloatScale steps.
NumInt(i) == [tag |-> "Int", v |-> i]
NumFloat(f) == [tag |-> "Float", v |-> f]
None == [tag |-> "None", v |-> 0]

INT_0 == NumInt(0)
FLOAT_0 == NumFloat(0)
FLOAT_1 == NumFloat(FloatScale)

Nums == {NumInt(i) : i \in -MaxNum..MaxNum}
          \cup {NumFloat(f) : f \in (-MaxNum * FloatScale)..(MaxNum * FloatScale)}

\* Num::as_float, and the `as f64` casts of the match arms.
AsFloat(n) == IF n.tag = "Int" THEN n.v * FloatScale ELSE n.v

UnwrapOr(opt, default) == IF opt = None THEN default ELSE opt

\* A single value always taken as the upper bound.
SingleValueAlwaysUpper(start, end) ==
    IF start # None /\ end = None THEN <<INT_0, start>> ELSE <<start, end>>

\* A single value: the lower bound when negative, else the upper bound; the
\* other bound is the integer 0.
SingleValue(start, end) ==
    IF start # None /\ end = None
    THEN IF AsFloat(start) < 0 THEN <<start, INT_0>> ELSE <<INT_0, start>>
    ELSE <<start, end>>

\* The match on (start, end): two integers stay integers, anything else is
\* sampled as floats.
Promote(s, e) ==
    IF s.tag = "Int" /\ e.tag = "Int" THEN <<s, e>>
    ELSE <<NumFloat(AsFloat(s)), NumFloat(AsFloat(e))>>

EffectiveRange(start, end) ==
    LET se == SingleValue(start, end)
    IN Promote(UnwrapOr(se[1], FLOAT_0), UnwrapOr(se[2], FLOAT_1))

\* Equal bounds let through.
BoundsRejectedStrict(lower, upper) == lower > upper

BoundsRejected(lower, upper) == lower >= upper

\* gen_range(lower..upper) or gen_range(lower..=upper).
GenRange(lower, upper, inclusive) ==
    IF inclusive THEN lower..upper ELSE lower..(upper - 1)

RandomCmdBody(lower, upper, inclusive) ==
    /\ range' = <<lower, upper>>
    /\ IF BoundsRejected(lower.v, upper.v)
       THEN Fail("lower bound should be smaller than upper")
       ELSE \E num \in GenRange(lower.v, upper.v, inclusive) :
              Succeed(<<Item([tag |-> lower.tag, v |-> num]), NL>>, <<num>>)

RandomCmd ==
    /\ pc = "parse"
    /\ \E start \in Nums \cup {None}, end \in Nums \cup {None}, inclusive \in BOOLEAN :
      /\ start = None => end = None
      /\ pc' = "exited"
      /\ cmd' = [name |-> "random", start |-> start, end |-> end, inclusive |-> inclusive]
      /\ LET r == EffectiveRange(start, end)
         IN RandomCmdBody(r[1], r[2], inclusive)

\* No subcommand: Command::default().
DefaultCmd ==
    /\ pc = "parse"
    /\ pc' = "exited"
    /\ cmd' = [name |-> "default", start |-> FLOAT_0, end |-> FLOAT_1, inclusive |-> FALSE]
    /\ LET r == EffectiveRange(FLOAT_0, FLOAT_1)
       IN RandomCmdBody(r[1], r[2], FALSE)

Init ==
    /\ pc = "parse"
    /\ cmd = [name |-> "none"]
    /\ stdout = <<>>
    /\ stderr = <<>>
    /\ exitCode = ExitOk
    /\ drawn = <<>>
    /\ range = <<>>

Next ==
    \/ CoinCmd
    \/ ChooseCmd
    \/ ShuffleCmd
    \/ DieCmd
    \/ AssignCmd
    \/ RandomCmd
    \/ DefaultCmd

Spec == Init /\ [][Next]_vars

(* ====================== reading a finished run ======================== *)
Exited == pc = "exited"
Succeeded == Exited /\ exitCode = ExitOk
IsSelection == cmd.name \in {"coin", "choose", "die"}

\* The amount K asked for (times for die).
Requested == IF cmd.name = "die" THEN cmd.times ELSE cmd.amount

\* The flags as typed on the command line.
CountFlag == cmd.count
AllFlag == cmd.all

\* The outcomes the sampler delivered, in draw order.
Outcomes ==
    CASE cmd.name = "coin" -> [i \in DOMAIN drawn |-> <<"heads", "tails">>[drawn[i]]]
      [] cmd.name = "choose" -> [i \in DOMAIN drawn |-> cmd.items[drawn[i]]]
      [] cmd.name = "die" -> drawn

OfKind(out, kind) == SelectSeq(out, LAMBDA t : t.k = kind)

Listing == [i \in DOMAIN OfKind(stdout, "item") |-> OfKind(stdout, "item")[i].v]
Separators == Len(OfKind(stdout, "sep"))
TableLines == OfKind(stdout, "count")

\* The per-outcome listing is on standard output / is absent from it.
ListingShown == Listing = Outcomes
ListingAbsent == Listing = <<>> /\ Separators = 0
\* The count table is on standard output / is absent from it.
TableShown == {TableLines[i].v : i \in DOMAIN TableLines} = Range(Outcomes)
TableAbsent == TableLines = <<>>

RECURSIVE SumCounts(_)
SumCounts(lines) == IF lines = <<>> THEN 0 ELSE Head(lines).n + SumCounts(Tail(lines))

FirstSeen(sel, v) == CHOOSE i \in DOMAIN sel : sel[i] = v /\ \A j \in 1..(i - 1) : sel[j] # v

Injective(s) == \A i, j \in DOMAIN s : s[i] = s[j] => i = j

(* ============================== claims ================================ *)

\* C1: for coin, choose and die without the count and all flags, an amount
\* of at most 10 prints the individual outcomes and no count table, an amount
\* above 10 prints only the count table; with the all flag the individual
\* outcomes are printed for every amount, with or without the count flag.
C1_DefaultDisplay ==
    (Succeeded /\ IsSelection) =>
        /\ (~CountFlag /\ ~AllFlag /\ Requested <= AMOUNT_THRESHOLD)
              => (ListingShown /\ TableAbsent)
        /\ (~CountFlag /\ ~AllFlag /\ Requested > AMOUNT_THRESHOLD)
              => (TableShown /\ ListingAbsent)
        /\ AllFlag => ListingShown

C1_Witness ==
    /\ Succeeded /\ cmd.name = "coin"
    /\ ~CountFlag /\ ~AllFlag /\ Requested > AMOUNT_THRESHOLD
    /\ Len(TableLines) = 2 /\ Listing = <<>>

\* C2: for coin, choose and die the count flag without the all flag disables
\* the per-outcome listing for every amount: only the count table is printed.
C2_CountDisablesListing ==
    (Succeeded /\ IsSelection /\ CountFlag /\ ~AllFlag) => (ListingAbsent /\ TableShown)

\* C3: choose with a non-empty weights list whose length differs from the
\* number of items ends in a usage error and never produces a selection.
C3_MismatchIsUsageError ==
    (Exited /\ cmd.name = "choose"
       /\ Len(cmd.weights) # 0 /\ Len(cmd.weights) # Len(cmd.items))
      => (exitCode = ExitError /\ stdout = <<>> /\ drawn = <<>>)

\* C4: choose without the repetition flag and with amount <= number of items
\* never selects a source-list position twice, and a selection has more
\* outcomes than there are items only when the repetition flag was passed or
\* the amount exceeds the number of items.
C4_NoRepetitionDistinct ==
    (Exited /\ cmd.name = "choose") =>
        /\ (~cmd.repetition /\ cmd.amount <= Len(cmd.items))
              => (Injective(drawn) /\ Range(drawn) \subseteq DOMAIN cmd.items)
        /\ Len(drawn) > Len(cmd.items)
              => (cmd.repetition \/ cmd.amount > Len(cmd.items))

C4_Witness ==
    /\ Succeeded /\ cmd.name = "choose"
    /\ ~cmd.repetition /\ cmd.amount = 2 /\ Len(cmd.items) = 2
    /\ Len(cmd.weights) = 0
    /\ Len(drawn) = 2 /\ Len(Listing) = 2

\* C5: random whose effective lower bound is >= its effective upper bound,
\* die with zero sides (any times) and assign with lists of different
\* lengths all end in an error before anything is drawn or printed.
C5_BoundariesFail ==
    Exited =>
        /\ (cmd.name \in {"random", "default"} /\ range[1].v >= range[2].v)
              => (exitCode = ExitError /\ stdout = <<>> /\ drawn = <<>>)
        /\ (cmd.name = "random" /\ cmd.end # None
              /\ AsFloat(cmd.start) >= AsFloat(cmd.end))
              => (exitCode = ExitError /\ stdout = <<>> /\ drawn = <<>>)
        /\ (cmd.name = "die" /\ cmd.sides = 0)
              => (exitCode = ExitError /\ stdout = <<>> /\ drawn = <<>>)
        /\ (cmd.name = "assign" /\ Len(cmd.left) # Len(cmd.right))
              => (exitCode = ExitError /\ stdout = <<>> /\ drawn = <<>>)

C5_Witness ==
    /\ Exited /\ cmd.name = "random" /\ cmd.inclusive
    /\ cmd.start = NumInt(1) /\ cmd.end = NumFloat(FloatScale)
    /\ range[1] = range[2]
    /\ exitCode = ExitError

\* C6: a printed count table has one line per distinct outcome with its
\* number of occurrences, lines in non-increasing order of count, and
\* outcomes of equal count in the order they were first drawn.
C6_TableOrder ==
    (Succeeded /\ IsSelection /\ TableLines # <<>>) =>
        /\ TableShown /\ Len(TableLines) = Cardinality(Range(Outcomes))
        /\ \A i \in DOMAIN TableLines : TableLines[i].n = Occurrences(Outcomes, TableLines[i].v)
        /\ \A i, j \in DOMAIN TableLines : i < j => TableLines[i].n >= TableLines[j].n
        /\ \A i, j \in DOMAIN TableLines :
             (i < j /\ TableLines[i].n = TableLines[j].n)
               => FirstSeen(Outcomes, TableLines[i].v) < FirstSeen(Outcomes, TableLines[j].v)

\* C6 without the order among equal counts, which is the hash map's.
C6_TableSortedByCount ==
    (Succeeded /\ IsSelection /\ TableLines # <<>>) =>
        /\ TableShown /\ Len(TableLines) = Cardinality(Range(Outcomes))
        /\ \A i \in DOMAIN TableLines : TableLines[i].n = Occurrences(Outcomes, TableLines[i].v)
        /\ \A i, j \in DOMAIN TableLines : i < j => TableLines[i].n >= TableLines[j].n

\* C7: a successful coin, choose or die run with requested amount K yields
\* exactly K outcomes: the listing has K entries and K-1 separators, the
\* table's counts sum to K, and every die outcome lies in 1..sides.
C7_ExactlyK ==
    (Succeeded /\ IsSelection) =>
        /\ Len(Outcomes) = Requested
        /\ Listing # <<>> => (Len(Listing) = Requested /\ Separators = Requested - 1)
        /\ TableLines # <<>> => SumCounts(TableLines) = Requested
        /\ cmd.name = "die" => \A i \in DOMAIN drawn : drawn[i] \in 1..cmd.sides

\* C7 where the weights list is empty or as long as the item list: the
\* shortfall above needs a weights list shorter than the item list.
C7_ExactlyK_MatchedWeights ==
    (cmd.name = "choose" => Len(cmd.weights) \in {0, Len(cmd.items)}) => C7_ExactlyK

\* C8: assign with lists of equal length prints one pair per left item, in
\* the left order, the right sides being a permutation of the right list.
C8_AssignBijection ==
    (Exited /\ cmd.name = "assign" /\ Len(cmd.left) = Len(cmd.right)) =>
        LET pairs == OfKind(stdout, "pair")
        IN /\ exitCode = ExitOk
           /\ Len(pairs) = Len(cmd.left)
           /\ \A i \in DOMAIN pairs : pairs[i].l = cmd.left[i]
           /\ Injective(drawn) /\ Range(drawn) = DOMAIN cmd.right
           /\ \A i \in DOMAIN pairs : pairs[i].r = cmd.right[drawn[i]]

C8_Witness ==
    /\ Succeeded /\ cmd.name = "assign"
    /\ cmd.left = <<"a", "b">> /\ cmd.right = <<"b", "a">>
    /\ drawn = <<2, 1>>
    /\ OfKind(stdout, "pair") = <<Pair("a", "a"), Pair("b", "b")>>

\* C9: every failure is reported once as "error: <message>" on standard
\* error with exit code 1, no invocation ends abnormally in another way,
\* and no selection output precedes the error.
C9_UniformErrors ==
    Exited =>
        /\ exitCode \in {ExitOk, ExitError}
        /\ exitCode = ExitOk => stderr = <<>>
        /\ exitCode # ExitOk
              => (Len(stderr) = 1 /\ stderr[1].k = "error" /\ stdout = <<>>)

\* C9 where choose has no more weights than items: the abnormal end needs a
\* weights list longer than the item list.
C9_UniformErrors_NoExtraWeights ==
    (cmd.name = "choose" => Len(cmd.weights) <= Len(cmd.items)) => C9_UniformErrors

\* C10 as stated: a single bound value v given to random is the upper bound
\* and the lower bound is 0, for every v.
C10_SingleIsUpper ==
    (Exited /\ cmd.name = "random" /\ cmd.start # None /\ cmd.end = None) =>
        /\ range[2].v = Promote(INT_0, cmd.start)[2].v
        /\ range[1].v = 0

\* C10 amended: a single value v >= 0 is the upper bound with the lower bound
\* 0 (v = 0 is then rejected); a single value v < 0 is the lower bound with
\* the upper bound 0; with both bounds omitted the bounds are 0.0 and 1.0,
\* the upper one excluded unless the inclusive flag is passed.
C10_SingleBySign ==
    /\ (Exited /\ cmd.name = "random" /\ cmd.start # None /\ cmd.end = None) =>
          /\ range[1].tag = cmd.start.tag /\ range[2].tag = cmd.start.tag
          /\ cmd.start.v >= 0 => (range[2].v = cmd.start.v /\ range[1].v = 0)
          /\ cmd.start.v < 0 => (range[1].v = cmd.start.v /\ range[2].v = 0)
          /\ cmd.start.v # 0 <=> exitCode = ExitOk
    /\ (Exited /\ (cmd.name = "default" \/ (cmd.name = "random" /\ cmd.start = None))) =>
          /\ range = <<FLOAT_0, FLOAT_1>>
          /\ exitCode = ExitOk
          /\ ~cmd.inclusive => drawn[1] \in 0..(FloatScale - 1)

C10_Witness ==
    /\ Succeeded /\ cmd.name = "random"
    /\ cmd.start = NumInt(-1) /\ cmd.end = None
    /\ range = <<NumInt(-1), NumInt(0)>>
    /\ drawn = <<-1>>
====
